---- MODULE Spec2Model ----
(***************************************************************************)
(* A model of weather_app.py: the function fetch_weather_data and the      *)
(* top-level Streamlit script that calls it once per city.                 *)
(*                                                                         *)
(* Calendar dates are day numbers of the year 2024 (1 = 2024-01-01);       *)
(* strftime turns a day number into the <<year, month, day>> the request   *)
(* carries and the archive parses it back.  Floats are scaled integers.    *)
(* Two specifications share the module: Spec is one run of the script,     *)
(* FetchSpec calls fetch_weather_data repeatedly with fixed arguments.     *)
(***************************************************************************)
EXTENDS Integers, Sequences, FiniteSets, TLC

\* ---------------------------------------------------------------- bounds
MaxDate == 3        \* number of selectable calendar days
FirstDay == 30      \* day number of the first selectable day (2024-01-30)
MaxExtra == 1       \* how many values beyond MaxDate an upstream array may carry
MaxVariant == 1     \* distinct value sets the upstream may answer with
MaxCalls == 2       \* calls of fetch_weather_data in FetchSpec

Dates == FirstDay..(FirstDay + MaxDate - 1)
MaxUpLen == MaxDate + MaxExtra

Min(a, b) == IF a < b THEN a ELSE b
Max(a, b) == IF a > b THEN a ELSE b

\* ------------------------------------------------------------- calendar
MonthLen == <<31, 29, 31, 30, 31, 30, 31, 31, 30, 31, 30, 31>>

RECURSIVE YearMonthDay(_, _)
YearMonthDay(m, d) ==
    IF d <= MonthLen[m] THEN <<2024, m, d>>
    ELSE YearMonthDay(m + 1, d - MonthLen[m])

\* date.strftime("%Y-%m-%d")
strftime(date) == YearMonthDay(1, date)

RECURSIVE DaysBefore(_)
DaysBefore(m) == IF m = 1 THEN 0 ELSE MonthLen[m - 1] + DaysBefore(m - 1)

\* the archive's reading of an ISO date of the request
ParseIso(s) == DaysBefore(s[2]) + s[3]

\* date + timedelta(days=n)
timedelta(date, n) == date + n

\* variant: the end day left out of the index
pd_date_range_exclusive(start, end) ==
    [i \in 1..Max(0, end - start) |-> start + (i - 1)]

\* pd.date_range(start=start_date, end=end_date, freq="D"): inclusive, empty
\* when end < start
pd_date_range(start, end) ==
    [i \in 1..Max(0, end - start + 1) |-> start + (i - 1)]

\* --------------------------------------------------------------- tables
NaN == 0 - 1

VarKeys == <<"temperature_max", "temperature_min", "precipitation",
             "windspeed_max", "humidity_max">>
Keys == <<"date">> \o VarKeys
KeySet == {Keys[i] : i \in 1..Len(Keys)}
VarKeySet == {VarKeys[i] : i \in 1..Len(VarKeys)}
DailyNames == <<"temperature_2m_max", "temperature_2m_min", "precipitation_sum",
                "windspeed_10m_max", "relative_humidity_2m_max">>

\* pd.DataFrame(): no columns, no rows
EmptyDataFrame == [columns |-> <<>>, data |-> [k \in KeySet |-> <<>>]]

Nrows(df) == IF df.columns = <<>> THEN 0 ELSE Len(df.data["date"])

\* DataFrame.empty
IsEmpty(df) == Len(df.columns) = 0 \/ Nrows(df) = 0

\* pd.DataFrame(dict) raises ValueError when the arrays differ in length
DataFrameRaises(data) == \E k \in KeySet : Len(data[k]) # Len(data["date"])

pd_DataFrame(data) == [columns |-> Keys, data |-> data]

\* variant: the last n values kept instead of the first n
Slice_tail(arr, n) == SubSeq(arr, Max(1, Len(arr) - n + 1), Len(arr))

\* variant: no cut at all
Slice_none(arr, n) == arr

\* arr[:n]
Slice(arr, n) == SubSeq(arr, 1, Min(n, Len(arr)))

\* variant: the sentinels put in front
np_pad_left(arr, n) == [i \in 1..n |-> NaN] \o arr

\* variant: nothing appended
np_pad_none(arr, n) == arr

\* np.pad(arr, (0, n), 'constant', constant_values=np.nan)
np_pad(arr, n) == arr \o [i \in 1..n |-> NaN]

\* ------------------------------------------------------------- upstream
\* value i of variable v in answer s
UpValue(v, i, s) == 100 * s + 10 * v + i
UpArray(v, k, s) == [i \in 1..k |-> UpValue(v, i, s)]

NetworkError == [kind |-> "network_error", values |-> <<>>]
NoDaily == [kind |-> "no_daily", values |-> <<>>]
DailyResponse(L, s) ==
    [kind |-> "daily", values |-> [v \in 1..Len(VarKeys) |-> UpArray(v, L[v], s)]]

\* every outcome of openmeteo.weather_api(...)[0].Daily(): an exception, a
\* response without daily block, or five arrays of independent lengths
AllUpstream ==
    {NetworkError, NoDaily} \cup
    {DailyResponse(L, s) : L \in [1..Len(VarKeys) -> 0..MaxUpLen], s \in 1..MaxVariant}

\* the same, the five arrays being equally long
UniformUpstream ==
    {NetworkError, NoDaily} \cup
    {DailyResponse([v \in 1..Len(VarKeys) |-> k], s) : k \in 0..MaxUpLen, s \in 1..MaxVariant}

\* an archive that answers one value per requested day
DaysRequested(params) == ParseIso(params.end_date) - ParseIso(params.start_date) + 1

\* ---------------------------------------------------- fetch_weather_data
\* variant: the request ends on end_date itself
RequestEnd_same(end_date) == end_date

\* "end_date": (end_date + timedelta(days=1)), line 22
RequestEnd(end_date) == timedelta(end_date, 1)

Params(latitude, longitude, start_date, end_date) ==
    [latitude |-> latitude, longitude |-> longitude,
     start_date |-> strftime(start_date),
     end_date |-> strftime(RequestEnd(end_date)),
     daily |-> DailyNames, timezone |-> "America/Chicago"]

\* weather_api raised, or response.Daily() is None and daily.Variables raises
UpstreamRaises(upstream) == upstream.kind # "daily"

VarIndex(k) == CHOOSE i \in 1..Len(VarKeys) : VarKeys[i] = k

\* lines 34-41: the dictionary with every array cut to the index length
DailyData(date_range, upstream) ==
    [k \in KeySet |->
        IF k = "date" THEN date_range
        ELSE Slice(upstream.values[VarIndex(k)], Len(date_range))]

\* lines 43-45: short arrays are padded at the tail
Padded(daily_data) ==
    [k \in KeySet |->
        IF k # "date" /\ Len(daily_data[k]) < Len(daily_data["date"])
        THEN np_pad(daily_data[k], Len(daily_data["date"]) - Len(daily_data[k]))
        ELSE daily_data[k]]

\* except Exception as e: st.error(...); return pd.DataFrame()
ExceptHandler(params) ==
    [request |-> params, frame |-> EmptyDataFrame, st_error |-> TRUE,
     propagated |-> FALSE]

fetch_weather_data(latitude, longitude, start_date, end_date, upstream) ==
    LET params == Params(latitude, longitude, start_date, end_date)
        date_range == pd_date_range(start_date, end_date)
    IN  IF UpstreamRaises(upstream) THEN ExceptHandler(params)
        ELSE LET daily_data == Padded(DailyData(date_range, upstream))
             IN  IF DataFrameRaises(daily_data) THEN ExceptHandler(params)
                 ELSE [request |-> params, frame |-> pd_DataFrame(daily_data),
                       st_error |-> FALSE, propagated |-> FALSE]

\* ------------------------------------------------------------ the script
VARIABLES pc, date_range, start_date, end_date, requests, outcomes, frames,
          st_log, chart, stats
VARIABLES h_pc, h_args, h_upstream, h_result, h_returned

scriptVars == <<pc, date_range, start_date, end_date, requests, outcomes,
                frames, st_log, chart, stats>>
harnessVars == <<h_pc, h_args, h_upstream, h_result, h_returned>>
vars == <<scriptVars, harnessVars>>

\* latitude, longitude of the three cities, in 1/10000 degree
Coord == [Dallas |-> <<327767, 0 - 967970>>,
          Orlando |-> <<285383, 0 - 813792>>,
          Omaha |-> <<412565, 0 - 959345>>]
Cities == {"Dallas", "Orlando", "Omaha"}

\* variant: Orlando fetched first
FetchOrder_swapped == <<"Orlando", "Dallas", "Omaha">>

\* the order of the three calls
FetchOrder == <<"Dallas", "Orlando", "Omaha">>

\* datetime.now().date(): the day after the last one whose data may be missing
Today == FirstDay + MaxDate + 1
DefaultEnd == timedelta(Today, 0 - 2)
DefaultStart == timedelta(DefaultEnd, 0 - 30)

\* what st.sidebar.date_input can return: no date, one date, or two dates
\* in either order; untouched, it returns the default range
Selections ==
    {<<>>} \cup {<<d>> : d \in Dates} \cup {<<d, e>> : d \in Dates, e \in Dates}
    \cup {<<DefaultStart, DefaultEnd>>}

\* variant: the run goes on
st_stop_fallthrough(next) == next

\* st.stop(): the script run ends here instead of going on to `next`
st_stop(next) == "stopped"

\* variant: only the first table looked at
AnyEmpty_first(fr) == IsEmpty(fr["Dallas"])

\* dallas_data.empty or orlando_data.empty or omaha_data.empty
AnyEmpty(fr) == IsEmpty(fr["Dallas"]) \/ IsEmpty(fr["Orlando"]) \/ IsEmpty(fr["Omaha"])

\* Series.mean(): NaN skipped; kept as <<sum, count>>
RECURSIVE SumSeq(_)
SumSeq(s) == IF s = <<>> THEN 0 ELSE Head(s) + SumSeq(Tail(s))
Mean(col) ==
    LET present == SelectSeq(col, LAMBDA x : x # NaN)
    IN  <<SumSeq(present), Len(present)>>

Trace(fr, city, key) == [city |-> city, x |-> fr[city].data["date"], y |-> fr[city].data[key]]

\* the nine traces of the figure, lines 85-100
Traces(fr) ==
    << Trace(fr, "Dallas", "temperature_max"), Trace(fr, "Orlando", "temperature_max"),
       Trace(fr, "Omaha", "temperature_max"),
       Trace(fr, "Dallas", "precipitation"), Trace(fr, "Orlando", "precipitation"),
       Trace(fr, "Omaha", "precipitation"),
       Trace(fr, "Dallas", "windspeed_max"), Trace(fr, "Orlando", "windspeed_max"),
       Trace(fr, "Omaha", "windspeed_max") >>

Averages(fr) == [c \in Cities |-> [k \in VarKeySet |-> Mean(fr[c].data[k])]]

NoArgs == [city |-> "Dallas", start_date |-> FirstDay, end_date |-> FirstDay]

ScriptInit ==
    /\ pc = "date_input"
    /\ date_range = <<>>
    /\ start_date = DefaultStart
    /\ end_date = DefaultEnd
    /\ requests = <<>>
    /\ outcomes = [c \in Cities |-> "none"]
    /\ frames = [c \in Cities |-> EmptyDataFrame]
    /\ st_log = <<>>
    /\ chart = <<>>
    /\ stats = <<>>

HarnessIdle ==
    /\ h_pc = "idle"
    /\ h_upstream = NetworkError
    /\ h_result = ExceptHandler(Params(0, 0, FirstDay, FirstDay))
    /\ h_returned = <<>>

Init == ScriptInit /\ h_args = NoArgs /\ HarnessIdle

\* lines 59-65
SelectDates ==
    /\ pc = "date_input"
    /\ \E sel \in Selections :
        /\ date_range' = sel
        /\ IF Len(sel) = 2
           THEN /\ start_date' = sel[1]
                /\ end_date' = sel[2]
                /\ st_log' = st_log
                /\ pc' = "fetch"
           ELSE /\ UNCHANGED <<start_date, end_date>>
                /\ st_log' = Append(st_log, "warning: Please select both start and end dates.")
                /\ pc' = st_stop("fetch")
    /\ UNCHANGED <<requests, outcomes, frames, chart, stats>>
    /\ UNCHANGED harnessVars

\* one of lines 69-71 (the first preceded by st.info, line 68)
FetchCity(city) ==
    /\ pc = "fetch"
    /\ Len(requests) < Len(FetchOrder)
    /\ FetchOrder[Len(requests) + 1] = city
    /\ \E upstream \in UniformUpstream :
        LET r == fetch_weather_data(Coord[city][1], Coord[city][2],
                                    start_date, end_date, upstream)
            info == IF requests = <<>>
                    THEN Append(st_log, "info: Fetching weather data...")
                    ELSE st_log
        IN  /\ requests' = Append(requests, r.request)
            /\ outcomes' = [outcomes EXCEPT ![city] = upstream.kind]
            /\ frames' = [frames EXCEPT ![city] = r.frame]
            /\ st_log' = IF r.st_error
                         THEN Append(info, "error: Error fetching data")
                         ELSE info
            /\ pc' = IF r.propagated THEN "crashed"
                     ELSE IF Len(requests) + 1 = Len(FetchOrder) THEN "check"
                     ELSE "fetch"
    /\ UNCHANGED <<date_range, start_date, end_date, chart, stats>>
    /\ UNCHANGED harnessVars

FetchDallas == FetchCity("Dallas")
FetchOrlando == FetchCity("Orlando")
FetchOmaha == FetchCity("Omaha")

\* lines 74-76
CheckEmpty ==
    /\ pc = "check"
    /\ IF AnyEmpty(frames)
       THEN /\ st_log' = Append(st_log, "error: No data available for the selected date range.")
            /\ pc' = st_stop("plot")
       ELSE /\ st_log' = st_log
            /\ pc' = "plot"
    /\ UNCHANGED <<date_range, start_date, end_date, requests, outcomes, frames,
                   chart, stats>>
    /\ UNCHANGED harnessVars

\* lines 82-108
Plot ==
    /\ pc = "plot"
    /\ chart' = Traces(frames)
    /\ pc' = "stats"
    /\ UNCHANGED <<date_range, start_date, end_date, requests, outcomes, frames,
                   st_log, stats>>
    /\ UNCHANGED harnessVars

\* lines 111-136
Statistics ==
    /\ pc = "stats"
    /\ stats' = Averages(frames)
    /\ pc' = "done"
    /\ UNCHANGED <<date_range, start_date, end_date, requests, outcomes, frames,
                   st_log, chart>>
    /\ UNCHANGED harnessVars

Next ==
    \/ SelectDates
    \/ FetchDallas
    \/ FetchOrlando
    \/ FetchOmaha
    \/ CheckEmpty
    \/ Plot
    \/ Statistics

Spec == Init /\ [][Next]_vars

\* ----------------------------------- fetch_weather_data called repeatedly
FetchInit ==
    /\ ScriptInit
    /\ h_args \in [city : Cities, start_date : Dates, end_date : Dates]
    /\ HarnessIdle

\* what a caller sees of the returned table: its length and its date column
Shape(kind, df) ==
    [kind |-> kind, nrows |-> Nrows(df),
     date |-> IF df.columns = <<>> THEN <<>> ELSE df.data["date"]]

Call ==
    /\ h_pc = "idle"
    /\ Len(h_returned) < MaxCalls
    /\ h_pc' = "returned"
    /\ \E upstream \in AllUpstream :
        LET r == fetch_weather_data(Coord[h_args.city][1], Coord[h_args.city][2],
                                    h_args.start_date, h_args.end_date, upstream)
        IN  /\ h_upstream' = upstream
            /\ h_result' = r
            /\ h_returned' = Append(h_returned, Shape(upstream.kind, r.frame))
    /\ UNCHANGED h_args
    /\ UNCHANGED scriptVars

\* the caller is done with the table; only its shape is remembered
Discard ==
    /\ h_pc = "returned"
    /\ h_pc' = "idle"
    /\ h_upstream' = NetworkError
    /\ h_result' = ExceptHandler(Params(0, 0, FirstDay, FirstDay))
    /\ UNCHANGED <<h_args, h_returned>>
    /\ UNCHANGED scriptVars

FetchNext ==
    \/ Call
    \/ Discard

FetchSpec == FetchInit /\ [][FetchNext]_vars

\* ------------------------------------------------- fetch_weather_data claims
Returned == h_pc = "returned"
Answered == Returned /\ h_upstream.kind = "daily"
IndexLen == Max(0, h_args.end_date - h_args.start_date + 1)
UpLen(v) == Len(h_upstream.values[v])
Column(v) == h_result.frame.data[VarKeys[v]]
VarIds == 1..Len(VarKeys)

\* C1: for start_date <= end_date and any lengths of the arrays of the
\* response, the returned table has end_date - start_date + 1 rows and its
\* date column is start_date, start_date + 1, ..., end_date.
C1_RowsCoverRange ==
    (Answered /\ h_args.start_date <= h_args.end_date) =>
        LET df == h_result.frame
            n == h_args.end_date - h_args.start_date + 1
        IN  /\ Nrows(df) = n
            /\ Len(df.data["date"]) = n
            /\ df.data["date"][1] = h_args.start_date
            /\ df.data["date"][n] = h_args.end_date
            /\ \A i \in 1..(n - 1) : df.data["date"][i + 1] = df.data["date"][i] + 1

C1_Witness ==
    /\ Answered
    /\ h_args.end_date = h_args.start_date + 2
    /\ UpLen(1) = 0
    /\ UpLen(2) = 4
    /\ Nrows(h_result.frame) = 3

\* C2: an upstream array of length k below the index length N gives a column
\* of length N whose first k entries are the upstream values in order and
\* whose last N - k entries are the sentinel; a variable that came with N
\* values keeps exactly those.
C2_ShortArrayPaddedAtTail ==
    Answered =>
        \A v \in VarIds :
            /\ UpLen(v) < IndexLen =>
                /\ Len(Column(v)) = IndexLen
                /\ \A i \in 1..UpLen(v) : Column(v)[i] = h_upstream.values[v][i]
                /\ \A i \in (UpLen(v) + 1)..IndexLen : Column(v)[i] = NaN
            /\ UpLen(v) = IndexLen => Column(v) = h_upstream.values[v]

C2_Witness ==
    /\ Answered
    /\ IndexLen = 3
    /\ UpLen(3) = 2
    /\ \A v \in VarIds \ {3} : UpLen(v) = 3
    /\ Column(3) = <<UpValue(3, 1, 1), UpValue(3, 2, 1), NaN>>
    /\ Column(1) = h_upstream.values[1]

\* C3 as stated: every value the upstream returned is in the column at its
\* original position, whatever the length of the array.
C3_Original ==
    Answered =>
        \A v \in VarIds : \A i \in 1..UpLen(v) :
            /\ i <= Len(Column(v))
            /\ Column(v)[i] = h_upstream.values[v][i]

\* C3 amended: an array is never reordered, but it is cut at the index length:
\* entry i of the column is upstream value i for i up to min(k, N) and the
\* sentinel beyond k; upstream values at positions above N are dropped.
C3_KeptInPlaceOrCut ==
    Answered =>
        \A v \in VarIds :
            /\ Len(Column(v)) = IndexLen
            /\ \A i \in 1..IndexLen :
                Column(v)[i] = IF i <= UpLen(v) THEN h_upstream.values[v][i] ELSE NaN

C3_Witness ==
    /\ Answered
    /\ IndexLen = 2
    /\ UpLen(1) = 4
    /\ Column(1) = <<UpValue(1, 1, 1), UpValue(1, 2, 1)>>

\* C7 as stated: any two calls with the same arguments return tables of the
\* same length and date index, whatever the upstream did, failures included.
C7_Original ==
    \A i \in DOMAIN h_returned : \A j \in DOMAIN h_returned :
        /\ h_returned[i].nrows = h_returned[j].nrows
        /\ h_returned[i].date = h_returned[j].date

\* C7 amended: two calls with the same arguments that the upstream both
\* answers return the same length and date index whatever the arrays; a call
\* that fails returns the table without rows and columns.
C7_SameShapeWhenAnswered ==
    \A i \in DOMAIN h_returned :
        /\ h_returned[i].kind # "daily" =>
            h_returned[i].nrows = 0 /\ h_returned[i].date = <<>>
        /\ \A j \in DOMAIN h_returned :
            (h_returned[i].kind = "daily" /\ h_returned[j].kind = "daily") =>
                /\ h_returned[i].nrows = h_returned[j].nrows
                /\ h_returned[i].date = h_returned[j].date

C7_Witness ==
    /\ Len(h_returned) = 2
    /\ Answered
    /\ h_returned[1].kind = "daily"
    /\ h_returned[2].nrows = 3
    /\ UpLen(1) = 1
    /\ UpLen(2) = 4

\* C8: whatever the five upstream lengths, the table is returned without an
\* error and each of its five variable columns is as long as its date column.
C8_ColumnsMatchIndex ==
    Answered =>
        /\ ~h_result.st_error
        /\ h_result.frame.columns = Keys
        /\ \A k \in VarKeySet :
            Len(h_result.frame.data[k]) = Len(h_result.frame.data["date"])

C8_Witness ==
    /\ Answered
    /\ ~h_result.st_error
    /\ IndexLen = 2
    /\ UpLen(1) = 1
    /\ UpLen(2) = 2
    /\ UpLen(3) = 3
    /\ UpLen(4) = 0
    /\ UpLen(5) = 4
    /\ \A v \in VarIds : Len(Column(v)) = 2

\* the upstream answered one value per requested day, for each variable
OnePerRequestedDay ==
    /\ Answered
    /\ \A v \in VarIds : UpLen(v) = DaysRequested(h_result.request)

\* C9 as stated: the request carries the caller's start_date and end_date,
\* and an upstream answering one value per requested day fills the index
\* exactly, no value dropped.
C9_Original ==
    Returned =>
        /\ ParseIso(h_result.request.start_date) = h_args.start_date
        /\ ParseIso(h_result.request.end_date) = h_args.end_date
        /\ OnePerRequestedDay => \A v \in VarIds : Column(v) = h_upstream.values[v]

\* C9 amended: the request starts at start_date and ends one day after
\* end_date; for start_date <= end_date an upstream answering one value per
\* requested day returns one value more than the index holds, and the
\* column is that array without its last value.
C9_RequestOneDayLonger ==
    Returned =>
        /\ ParseIso(h_result.request.start_date) = h_args.start_date
        /\ ParseIso(h_result.request.end_date) = h_args.end_date + 1
        /\ (OnePerRequestedDay /\ h_args.start_date <= h_args.end_date) =>
            \A v \in VarIds :
                /\ UpLen(v) = IndexLen + 1
                /\ Column(v) = SubSeq(h_upstream.values[v], 1, UpLen(v) - 1)

C9_Witness ==
    /\ OnePerRequestedDay
    /\ h_args.start_date = FirstDay
    /\ h_args.end_date = FirstDay + 1
    /\ h_result.request.start_date = <<2024, 1, 30>>
    /\ h_result.request.end_date = <<2024, 2, 1>>
    /\ UpLen(1) = 3
    /\ Len(Column(1)) = 2

\* ------------------------------------------------------------ script claims
Inverted == Len(date_range) = 2 /\ date_range[2] < date_range[1]
Failed(c) == outcomes[c] \in {"network_error", "no_daily"}
Rendering == pc \in {"plot", "stats", "done"}

\* C4: with an inverted range selected, no request is issued to the archive.
C4_Original == Inverted => requests = <<>>

\* C5 as stated: a failed fetch raises into the caller.
C5_Original == \A c \in Cities : Failed(c) => pc = "crashed"

\* C5 amended: a failed fetch does not raise; it shows an error and returns
\* the empty table, the script goes on, and once one of the three fetches
\* failed no chart and no statistic is ever rendered: the run ends stopped
\* with the no-data error shown.
C5_FailureNeverRenders ==
    \A c \in Cities : Failed(c) =>
        /\ pc # "crashed"
        /\ frames[c] = EmptyDataFrame
        /\ \E i \in DOMAIN st_log : st_log[i] = "error: Error fetching data"
        /\ ~Rendering
        /\ chart = <<>>
        /\ stats = <<>>
        /\ pc = "stopped" =>
            st_log[Len(st_log)] = "error: No data available for the selected date range."

C5_Witness ==
    /\ pc = "stopped"
    /\ outcomes["Dallas"] = "daily"
    /\ ~IsEmpty(frames["Dallas"])
    /\ outcomes["Orlando"] = "daily"
    /\ Failed("Omaha")
    /\ chart = <<>>

\* C6: with fewer than two dates selected the script warns and stops without
\* any fetch; a request is only ever issued after two dates were selected.
C6_NoFetchWithoutRange ==
    /\ requests # <<>> => Len(date_range) = 2
    /\ (pc # "date_input" /\ Len(date_range) < 2) =>
        /\ pc = "stopped"
        /\ requests = <<>>
        /\ st_log = <<"warning: Please select both start and end dates.">>
        /\ \A c \in Cities : outcomes[c] = "none"

C6_Witness ==
    /\ pc = "stopped"
    /\ Len(date_range) = 1
    /\ requests = <<>>

\* C10: past date selection the three requests go out once each, Dallas then
\* Orlando then Omaha, all of them before any result is inspected, whatever
\* the earlier results were; rendering happens only with three non-empty
\* tables.
C10_ThreeFetchesThenCheck ==
    /\ Len(requests) <= 3
    /\ Len(requests) >= 1 =>
        requests[1].latitude = Coord["Dallas"][1] /\ requests[1].longitude = Coord["Dallas"][2]
    /\ Len(requests) >= 2 =>
        requests[2].latitude = Coord["Orlando"][1] /\ requests[2].longitude = Coord["Orlando"][2]
    /\ Len(requests) >= 3 =>
        requests[3].latitude = Coord["Omaha"][1] /\ requests[3].longitude = Coord["Omaha"][2]
    /\ (Len(date_range) = 2 /\ pc \notin {"date_input", "fetch"}) => Len(requests) = 3
    /\ (\E i \in DOMAIN st_log :
            st_log[i] = "error: No data available for the selected date range.")
        => Len(requests) = 3
    /\ Rendering => \A c \in Cities : ~IsEmpty(frames[c]) /\ outcomes[c] = "daily"

C10_Witness ==
    /\ pc = "stopped"
    /\ Failed("Dallas")
    /\ Len(requests) = 3
    /\ outcomes["Orlando"] = "daily"
    /\ ~IsEmpty(frames["Omaha"])
====
